---- MODULE Spec2Model ----
(***************************************************************************)
(* The bracket predictor: the Zustand store useBracketStore (winners,      *)
(* setWinner, reset) and the bracket page that wires seven MatchCards to   *)
(* it.  Spec is the page (guarded MatchCard clicks and the reset button);  *)
(* StoreSpec is the bare store, called with any slot and any entrant.      *)
(***************************************************************************)
EXTENDS Naturals, Sequences, FiniteSets

VARIABLES
    winners,        \* BracketState.winners: the 7-slot mapping held by the store
    prev,           \* state.winners as the last store call (or reload) found it
    last,           \* the last store call or load: [op, matchId, team]
    storage,        \* localStorage of the browser: key -> item
    writeFailures,  \* how many writes of the persisted record have failed
    other,          \* winners held by a second session open in the same browser
    calls,          \* store calls made so far, where the model counts them
    upd,            \* the setWinner updater being run: [pc, matchId, team, newWinners]
    ui,             \* component state of BracketPage
    exp,            \* the handleExport call being run and the file it downloads
    stats           \* the rankings page: TEAM_STATS, sort directions, last getRankings

storeVars == <<winners, prev, last, storage>>

\* The updater in progress and the page's component state.
pageVars == <<upd, ui, exp, stats>>

\* What a pick or reset of a single session with working storage leaves alone.
envVars == <<writeFailures, other, calls, upd, ui, exp, stats>>

vars == <<winners, prev, last, storage, writeFailures, other, calls, upd, ui, exp, stats>>

\* JavaScript null.
null == "null"

\* JavaScript undefined, the value of team?.name for a null team.
undefined == "undefined"

\* JavaScript truthiness of a string | null value (!x is ~Truthy(x)).
Truthy(x) == x # null /\ x # ""

\* A null Team: reading a field through ?. gives undefined.
nullTeam == [name |-> undefined, iso |-> undefined]

\* keyof BracketState['winners'], in declaration order.
Slots == {"q1", "q4", "q2", "q3", "sf1", "sf2", "final"}

QuarterFinals == {"q1", "q4", "q2", "q3"}

\* The keys of TEAMS, in declaration order.
Roster == <<"Mali", "Senegal", "Egypt", "Ivory Coast",
            "Cameroon", "Morocco", "Algeria", "Nigeria">>

\* TEAMS: team name -> Team (the emoji field flag is read nowhere and left out).
TEAMS ==
    [n \in {"Mali", "Senegal", "Egypt", "Ivory Coast",
            "Cameroon", "Morocco", "Algeria", "Nigeria"} |->
        CASE n = "Mali"        -> [name |-> "Mali",        iso |-> "ml"]
          [] n = "Senegal"     -> [name |-> "Senegal",     iso |-> "sn"]
          [] n = "Egypt"       -> [name |-> "Egypt",       iso |-> "eg"]
          [] n = "Ivory Coast" -> [name |-> "Ivory Coast", iso |-> "ci"]
          [] n = "Cameroon"    -> [name |-> "Cameroon",    iso |-> "cm"]
          [] n = "Morocco"     -> [name |-> "Morocco",     iso |-> "ma"]
          [] n = "Algeria"     -> [name |-> "Algeria",     iso |-> "dz"]
          [] n = "Nigeria"     -> [name |-> "Nigeria",     iso |-> "ng"]]

\* How many roster names the bare store is called with in StoreSpec.
MaxEntrants == 2

\* The entrants passed to the bare store.
StoreEntrants == {Roster[i] : i \in 1..MaxEntrants}

\* The feeder matches of each slot, in order: sf1 is the winner of q1 vs q4,
\* sf2 the winner of q2 vs q3, final the winner of sf1 vs sf2.
dependsOn(s) ==
    CASE s = "sf1"   -> <<"q1", "q4">>
      [] s = "sf2"   -> <<"q2", "q3">>
      [] s = "final" -> <<"sf1", "sf2">>
      [] OTHER       -> <<>>

\* The dependency set of a slot.
Deps(s) == {dependsOn(s)[i] : i \in 1..Len(dependsOn(s))}

\* The slots that transitively depend on s.
Dependents(s) ==
    {t \in Slots : s \in Deps(t) \/ \E m \in Deps(t) : s \in Deps(m)}

\* Every dependency slot of s has a winner in w.
DepsDecided(s, w) == \A d \in Deps(s) : Truthy(w[d])

\* Every slot with a winner has a winner in each of its dependency slots.
DepInv(w) == \A s \in Slots : Truthy(w[s]) => DepsDecided(s, w)

\* The localStorage key the persist middleware is given.
storageKey == "afcon-2025-session"

\* How many store calls two concurrent sessions make in one run.
MaxCalls == 3

\* How many writes of the persisted record may fail in one run.
MaxWriteFailures == 1

\* localStorage.getItem gives null: no item under the key.
absentItem == [kind |-> "absent"]

\* An item that JSON.parse rejects.
corruptItem == [kind |-> "corrupt"]

\* JSON.stringify of a string | null value.
toJSON(v) == IF v = null THEN <<"null">> ELSE <<"string", v>>

\* JSON.parse of a JSON null or string.
fromJSON(j) == IF j[1] = "null" THEN null ELSE j[2]

\* A record written with JSON strings in place of JSON nulls.
persistRecord_nullAsString(w) ==
    [kind |-> "json",
     state |-> [winners |-> [s \in Slots |-> <<"string", w[s]>>]]]

\* The record the persist middleware writes: the state without its functions.
persistRecord(w) ==
    [kind |-> "json",
     state |-> [winners |-> [s \in Slots |-> toJSON(w[s])]]]

\* A rehydration that keeps the initial state whatever is stored.
hydrate_ignoresRecord(item, initial) == initial

\* Rehydration at store creation: the stored state merged over the initial
\* one; the initial state when the item is absent or does not parse.
hydrate(item, initial) ==
    IF item.kind = "json"
    THEN [s \in Slots |-> fromJSON(item.state.winners[s])]
    ELSE initial

\* An initial state with a preselected champion.
initialWinners_presetFinal ==
    [q1 |-> null, q4 |-> null, q2 |-> null, q3 |-> null,
     sf1 |-> null, sf2 |-> null, final |-> "Senegal"]

\* The initial winners object of the store.
initialWinners ==
    [q1 |-> null, q4 |-> null, q2 |-> null, q3 |-> null,
     sf1 |-> null, sf2 |-> null, final |-> null]

\* A reset that forgets the final slot.
reset_keepsFinal(state) ==
    [q1 |-> null, q4 |-> null, q2 |-> null, q3 |-> null,
     sf1 |-> null, sf2 |-> null, final |-> state.final]

\* reset: () => set({ winners: {...all null} })
reset(state) ==
    [q1 |-> null, q4 |-> null, q2 |-> null, q3 |-> null,
     sf1 |-> null, sf2 |-> null, final |-> null]

\* setWinner whose Semi-Final branch also clears the other Semi-Final.
setWinner_sfClearsSibling(state, matchId, team) ==
    LET newWinners == [state EXCEPT ![matchId] = team]
        a == IF matchId = "q1" \/ matchId = "q4"
             THEN [newWinners EXCEPT !.sf1 = null, !.final = null]
             ELSE newWinners
        b == IF matchId = "q2" \/ matchId = "q3"
             THEN [a EXCEPT !.sf2 = null, !.final = null]
             ELSE a
        c == IF matchId = "sf1"
             THEN [b EXCEPT !.sf2 = null, !.final = null]
             ELSE IF matchId = "sf2"
             THEN [b EXCEPT !.sf1 = null, !.final = null]
             ELSE b
    IN  c

\* setWinner that returns the state as it is when the slot already holds
\* the team.
setWinner_unchangedIsNoop(state, matchId, team) ==
    IF state[matchId] = team THEN state
    ELSE LET newWinners == [state EXCEPT ![matchId] = team]
             a == IF matchId = "q1" \/ matchId = "q4"
                  THEN [newWinners EXCEPT !.sf1 = null, !.final = null]
                  ELSE newWinners
             b == IF matchId = "q2" \/ matchId = "q3"
                  THEN [a EXCEPT !.sf2 = null, !.final = null]
                  ELSE a
             c == IF matchId = "sf1" \/ matchId = "sf2"
                  THEN [b EXCEPT !.final = null]
                  ELSE b
         IN  c

\* setWinner whose Quarter-Final branches clear the final and leave the
\* Semi-Final.
setWinner_qfKeepsSemi(state, matchId, team) ==
    LET newWinners == [state EXCEPT ![matchId] = team]
    IN  IF matchId \in {"q1", "q4", "q2", "q3", "sf1", "sf2"}
        THEN [newWinners EXCEPT !.final = null]
        ELSE newWinners

\* setWinner whose Quarter-Final branches clear the Semi-Final only.
setWinner_noFinalClear(state, matchId, team) ==
    LET newWinners == [state EXCEPT ![matchId] = team]
        a == IF matchId = "q1" \/ matchId = "q4"
             THEN [newWinners EXCEPT !.sf1 = null]
             ELSE newWinners
        b == IF matchId = "q2" \/ matchId = "q3"
             THEN [a EXCEPT !.sf2 = null]
             ELSE a
        c == IF matchId = "sf1" \/ matchId = "sf2"
             THEN [b EXCEPT !.final = null]
             ELSE b
    IN  c

\* setWinner without the Semi-Final branch of the cascade.
setWinner_sfKeepsFinal(state, matchId, team) ==
    LET newWinners == [state EXCEPT ![matchId] = team]
        a == IF matchId = "q1" \/ matchId = "q4"
             THEN [newWinners EXCEPT !.sf1 = null, !.final = null]
             ELSE newWinners
        b == IF matchId = "q2" \/ matchId = "q3"
             THEN [a EXCEPT !.sf2 = null, !.final = null]
             ELSE a
    IN  b

\* setWinner with no cascade at all.
setWinner_noCascade(state, matchId, team) == [state EXCEPT ![matchId] = team]

\* setWinner whose Quarter-Final branches clear both Semi-Finals.
setWinner_clearsBothHalves(state, matchId, team) ==
    LET newWinners == [state EXCEPT ![matchId] = team]
        a == IF matchId \in QuarterFinals
             THEN [newWinners EXCEPT !.sf1 = null, !.sf2 = null, !.final = null]
             ELSE newWinners
        c == IF matchId = "sf1" \/ matchId = "sf2"
             THEN [a EXCEPT !.final = null]
             ELSE a
    IN  c

\* setWinner that rejects a write to a slot with an undecided dependency.
setWinner_validating(state, matchId, team) ==
    IF ~DepsDecided(matchId, state) THEN state
    ELSE LET newWinners == [state EXCEPT ![matchId] = team]
             a == IF matchId = "q1" \/ matchId = "q4"
                  THEN [newWinners EXCEPT !.sf1 = null, !.final = null]
                  ELSE newWinners
             b == IF matchId = "q2" \/ matchId = "q3"
                  THEN [a EXCEPT !.sf2 = null, !.final = null]
                  ELSE a
             c == IF matchId = "sf1" \/ matchId = "sf2"
                  THEN [b EXCEPT !.final = null]
                  ELSE b
         IN  c

\* setWinner that un-picks the slot when its current winner is picked again.
setWinner_toggle(state, matchId, team) ==
    LET newWinners ==
            [state EXCEPT ![matchId] = IF state[matchId] = team THEN null ELSE team]
        a == IF matchId = "q1" \/ matchId = "q4"
             THEN [newWinners EXCEPT !.sf1 = null, !.final = null]
             ELSE newWinners
        b == IF matchId = "q2" \/ matchId = "q3"
             THEN [a EXCEPT !.sf2 = null, !.final = null]
             ELSE a
        c == IF matchId = "sf1" \/ matchId = "sf2"
             THEN [b EXCEPT !.final = null]
             ELSE b
    IN  c

\* setWinner: (matchId, team) => set((state) => ...): the new winners object.
setWinner(state, matchId, team) ==
    LET newWinners == [state EXCEPT ![matchId] = team]
        a == IF matchId = "q1" \/ matchId = "q4"
             THEN [newWinners EXCEPT !.sf1 = null, !.final = null]
             ELSE newWinners
        b == IF matchId = "q2" \/ matchId = "q3"
             THEN [a EXCEPT !.sf2 = null, !.final = null]
             ELSE a
        c == IF matchId = "sf1" \/ matchId = "sf2"
             THEN [b EXCEPT !.final = null]
             ELSE b
    IN  c

\* getTeam that looks the name up with its blanks removed: no key of TEAMS
\* matches a name holding a blank.
getTeam_blanksRemoved(name) ==
    IF ~Truthy(name) THEN nullTeam
    ELSE IF name \in DOMAIN TEAMS \ {"Ivory Coast"} THEN TEAMS[name]
    ELSE [name |-> name, iso |-> ""]

\* getTeam: null for a falsy name, the roster record, or a placeholder.
getTeam(name) ==
    IF ~Truthy(name) THEN nullTeam
    ELSE IF name \in DOMAIN TEAMS THEN TEAMS[name]
    ELSE [name |-> name, iso |-> ""]

\* team1 with the q4 card's first row pasted from its second.
team1_pastedRow(id, w) ==
    CASE id = "q1"    -> TEAMS["Mali"]
      [] id = "q4"    -> TEAMS["Ivory Coast"]
      [] id = "q2"    -> TEAMS["Cameroon"]
      [] id = "q3"    -> TEAMS["Algeria"]
      [] id = "sf1"   -> getTeam(w.q1)
      [] id = "sf2"   -> getTeam(w.q2)
      [] id = "final" -> getTeam(w.sf1)

\* The team1 prop of each interactive MatchCard of the page.
team1(id, w) ==
    CASE id = "q1"    -> TEAMS["Mali"]
      [] id = "q4"    -> TEAMS["Egypt"]
      [] id = "q2"    -> TEAMS["Cameroon"]
      [] id = "q3"    -> TEAMS["Algeria"]
      [] id = "sf1"   -> getTeam(w.q1)
      [] id = "sf2"   -> getTeam(w.q2)
      [] id = "final" -> getTeam(w.sf1)

\* team2 with the Semi-Final cards wired to the other half's Quarter-Final.
team2_crossWired(id, w) ==
    CASE id = "q1"    -> TEAMS["Senegal"]
      [] id = "q4"    -> TEAMS["Ivory Coast"]
      [] id = "q2"    -> TEAMS["Morocco"]
      [] id = "q3"    -> TEAMS["Nigeria"]
      [] id = "sf1"   -> getTeam(w.q3)
      [] id = "sf2"   -> getTeam(w.q4)
      [] id = "final" -> getTeam(w.sf2)

\* The team2 prop of each interactive MatchCard of the page.
team2(id, w) ==
    CASE id = "q1"    -> TEAMS["Senegal"]
      [] id = "q4"    -> TEAMS["Ivory Coast"]
      [] id = "q2"    -> TEAMS["Morocco"]
      [] id = "q3"    -> TEAMS["Nigeria"]
      [] id = "sf1"   -> getTeam(w.q4)
      [] id = "sf2"   -> getTeam(w.q3)
      [] id = "final" -> getTeam(w.sf2)

\* disabled whose final card looks at the first Semi-Final only.
disabled_finalOneSided(id, w) ==
    CASE id = "sf1"   -> ~Truthy(w.q1) \/ ~Truthy(w.q4)
      [] id = "sf2"   -> ~Truthy(w.q2) \/ ~Truthy(w.q3)
      [] id = "final" -> ~Truthy(w.sf1)
      [] OTHER        -> FALSE

\* disabled with && in place of ||.
disabled_and(id, w) ==
    CASE id = "sf1"   -> ~Truthy(w.q1) /\ ~Truthy(w.q4)
      [] id = "sf2"   -> ~Truthy(w.q2) /\ ~Truthy(w.q3)
      [] id = "final" -> ~Truthy(w.sf1) /\ ~Truthy(w.sf2)
      [] OTHER        -> FALSE

\* The disabled prop of each interactive MatchCard (absent on Quarter-Finals).
disabled(id, w) ==
    CASE id = "sf1"   -> ~Truthy(w.q1) \/ ~Truthy(w.q4)
      [] id = "sf2"   -> ~Truthy(w.q2) \/ ~Truthy(w.q3)
      [] id = "final" -> ~Truthy(w.sf1) \/ ~Truthy(w.sf2)
      [] OTHER        -> FALSE

\* The team a TeamRow of a card shows: row 1 is team1, row 2 is team2.
rowTeam(id, row, w) == IF row = 1 THEN team1(id, w) ELSE team2(id, w)

\* The onClick guard without its !disabled conjunct.
clickSelects_ignoresDisabled(id, row, w) == rowTeam(id, row, w) # nullTeam

\* MatchCard onClick guard: team && !disabled, after which onSelect runs.
clickSelects(id, row, w) == rowTeam(id, row, w) # nullTeam /\ ~disabled(id, w)

\* The isWinner prop of a TeamRow: winner === team?.name.
isWinner(id, row, w) == w[id] = rowTeam(id, row, w).name

\* isLost without its !!winner conjunct.
isLost_noWinnerGuard(id, row, w) == w[id] # rowTeam(id, row, w).name

\* The isLost prop of a TeamRow: !!winner && winner !== team?.name.
isLost(id, row, w) == Truthy(w[id]) /\ w[id] # rowTeam(id, row, w).name

\* A champion block that reads the first Semi-Final instead of the Final.
champion_readsSemiFinal(w) ==
    IF Truthy(w.final) THEN getTeam(w.sf1).name ELSE null

\* The "Your Champion" block: shown when winners.final is truthy.
champion(w) == IF Truthy(w.final) THEN getTeam(w.final).name ELSE null

\* No updater is being run.
idleUpd ==
    [pc |-> "idle", matchId |-> null, team |-> null, state |-> initialWinners,
     newWinners |-> initialWinners]

\* useState(false) for isExporting and showScrollHint; the export wrapper is
\* rendered off-screen (left-[-9999px]).
initialUi ==
    [isExporting |-> FALSE, showScrollHint |-> FALSE, wrapperLeft |-> "-9999px",
     exportPc |-> "idle", imageChampion |-> "none"]

\* A first visit: nothing stored, the store holds its initial state.
\* The columns getRankings can sort by.
StatKeys ==
    {"avgGoals", "avgGoalsConceded", "avgXG", "avgXGA", "possession",
     "avgYellowCards"}

\* One row of TEAM_STATS, the decimals in hundredths.
TeamStat(team, iso, g, gc, xg, xga, poss, yc) ==
    [team |-> team, iso |-> iso, avgGoals |-> g, avgGoalsConceded |-> gc,
     avgXG |-> xg, avgXGA |-> xga, possession |-> poss, avgYellowCards |-> yc]

TEAM_STATS ==
    << TeamStat("Nigeria",     "ng", 300, 100, 233, 105, 6300, 150),
       TeamStat("Senegal",     "sn", 250,  50, 215,  65, 6200, 125),
       TeamStat("Algeria",     "dz", 200,  25, 185,  55, 5600, 150),
       TeamStat("Ivory Coast", "ci", 200,  75, 160,  95, 5800, 225),
       TeamStat("Morocco",     "ma", 175,  25, 190,  45, 6500, 125),
       TeamStat("Egypt",       "eg", 150,  50, 145,  85, 5700, 175),
       TeamStat("Cameroon",    "cm", 150,  75, 130, 105, 4800, 200),
       TeamStat("Mali",        "ml",  75,  75, 135,  90, 5300, 325) >>

\* The comparator: diff = a[statKey] - b[statKey], negated unless ascending;
\* a negative value puts a first.
comesBefore(a, b, statKey, ascending) ==
    IF ascending THEN a[statKey] < b[statKey] ELSE a[statKey] > b[statKey]

\* Array.prototype.sort is stable: x goes behind every element it does not
\* come before.
RECURSIVE insertSorted(_, _, _, _)
insertSorted(sorted, x, statKey, ascending) ==
    IF sorted = <<>> THEN <<x>>
    ELSE IF comesBefore(x, Head(sorted), statKey, ascending)
         THEN <<x>> \o sorted
         ELSE <<Head(sorted)>> \o insertSorted(Tail(sorted), x, statKey, ascending)

RECURSIVE sort(_, _, _)
sort(array, statKey, ascending) ==
    IF array = <<>> THEN <<>>
    ELSE insertSorted(sort(SubSeq(array, 1, Len(array) - 1), statKey, ascending),
                      array[Len(array)], statKey, ascending)

\* getRankings that sorts TEAM_STATS itself.
getRankings_sortsInPlace(table, statKey, ascending) ==
    [rankings |-> sort(table, statKey, ascending),
     table |-> sort(table, statKey, ascending)]

\* getRankings: [...TEAM_STATS].sort(...); table is TEAM_STATS as the call
\* finds it and as it leaves it.
getRankings(table, statKey, ascending) ==
    [rankings |-> sort(table, statKey, ascending), table |-> table]

\* METRICS[].defaultAscending of the rankings page.
defaultAscending ==
    [k \in StatKeys |-> k \in {"avgGoalsConceded", "avgXGA"}]

\* The rankings page is another route: while the bracket page is shown it
\* is not mounted and its module, TEAM_STATS included, is not in use.
unmountedStats == [mounted |-> FALSE]

\* The rankings page as mounted, no grid rendered yet.
initialStats ==
    [mounted |-> TRUE, table |-> TEAM_STATS, sortDirections |-> defaultAscending,
     statKey |-> null, ascending |-> "none", rankings |-> <<>>]

\* No handleExport call is running and nothing has been downloaded.
idleExp ==
    [pc |-> "idle", final |-> null, pending |-> 0, failed |-> 0,
     download |-> [name |-> <<>>, imageFinal |-> null]]

Init ==
    /\ winners = initialWinners
    /\ prev = initialWinners
    /\ last = [op |-> "init", matchId |-> null, team |-> null]
    /\ storage = [k \in {storageKey} |-> absentItem]
    /\ writeFailures = 0
    /\ other = initialWinners
    /\ calls = 0
    /\ upd = idleUpd
    /\ ui = initialUi
    /\ exp = idleExp
    /\ stats = unmountedStats

\* setWinner through a store created without the persist middleware.
CallSetWinner_notPersisted(matchId, team) ==
    /\ winners' = setWinner(winners, matchId, team)
    /\ prev' = winners
    /\ last' = [op |-> "setWinner", matchId |-> matchId, team |-> team]
    /\ storage' = storage

\* The store's setWinner called with matchId and team; the persist middleware
\* writes the new state under the key.
CallSetWinner(matchId, team) ==
    /\ winners' = setWinner(winners, matchId, team)
    /\ prev' = winners
    /\ last' = [op |-> "setWinner", matchId |-> matchId, team |-> team]
    /\ storage' = [storage EXCEPT ![storageKey] = persistRecord(winners')]

\* The store's reset called; the persist middleware writes the new state.
CallReset ==
    /\ winners' = reset(winners)
    /\ prev' = winners
    /\ last' = [op |-> "reset", matchId |-> null, team |-> null]
    /\ storage' = [storage EXCEPT ![storageKey] = persistRecord(winners')]

\* A click on a team row of a card: onSelect -> handleWinner -> setWinner.
TeamRowClick(id, row) ==
    /\ clickSelects(id, row, winners)
    /\ CallSetWinner(id, rowTeam(id, row, winners).name)
    /\ UNCHANGED envVars

\* A click on the reset button: reset() when the confirm dialog is accepted.
ResetButtonClick ==
    \E confirmed \in BOOLEAN :
        IF confirmed THEN CallReset /\ UNCHANGED envVars
        ELSE UNCHANGED vars

Next ==
    \/ \E id \in Slots, row \in {1, 2} : TeamRowClick(id, row)
    \/ ResetButtonClick

Spec == Init /\ [][Next]_vars

\* The bare store: setWinner with any slot and any entrant, no caller guard.
StoreSetWinner(matchId, team) ==
    CallSetWinner(matchId, team) /\ UNCHANGED envVars

StoreReset == CallReset /\ UNCHANGED envVars

StoreNext ==
    \/ \E matchId \in Slots, team \in StoreEntrants : StoreSetWinner(matchId, team)
    \/ StoreReset

StoreSpec == Init /\ [][StoreNext]_vars

\* A reload of the page: a new store is created and rehydrated from the item
\* stored under the key.
Reload ==
    /\ winners' = hydrate(storage[storageKey], initialWinners)
    /\ prev' = winners
    /\ last' = [op |-> "load", matchId |-> null, team |-> null]
    /\ UNCHANGED <<storage, writeFailures, other, calls, upd, ui, exp, stats>>

ReloadNext ==
    \/ \E id \in Slots, row \in {1, 2} : TeamRowClick(id, row)
    \/ ResetButtonClick
    \/ Reload

\* The page with reloads, every write of the persisted record succeeding.
ReloadSpec == Init /\ [][ReloadNext]_vars

\* A visit that finds no record, or a record that does not parse.
PersistInit ==
    /\ storage \in [{storageKey} -> {absentItem, corruptItem}]
    /\ winners = hydrate(storage[storageKey], initialWinners)
    /\ prev = initialWinners
    /\ last = [op |-> "init", matchId |-> null, team |-> null]
    /\ writeFailures = 0
    /\ other = initialWinners
    /\ calls = 0
    /\ upd = idleUpd
    /\ ui = initialUi
    /\ exp = idleExp
    /\ stats = unmountedStats

\* A failed write that also undoes the in-memory change.
CallSetWinnerWriteFails_rollsBack(matchId, team) ==
    /\ winners' = winners
    /\ prev' = winners
    /\ last' = [op |-> "setWinner", matchId |-> matchId, team |-> team]
    /\ storage' = storage

\* setWinner when the write of the persisted record fails: the state is set
\* in memory, the stored item stays as it was.
CallSetWinnerWriteFails(matchId, team) ==
    /\ winners' = setWinner(winners, matchId, team)
    /\ prev' = winners
    /\ last' = [op |-> "setWinner", matchId |-> matchId, team |-> team]
    /\ storage' = storage

\* reset when the write of the persisted record fails.
CallResetWriteFails ==
    /\ winners' = reset(winners)
    /\ prev' = winners
    /\ last' = [op |-> "reset", matchId |-> null, team |-> null]
    /\ storage' = storage

\* A click on a team row while localStorage rejects the write.
TeamRowClickWriteFails(id, row) ==
    /\ writeFailures < MaxWriteFailures
    /\ clickSelects(id, row, winners)
    /\ CallSetWinnerWriteFails(id, rowTeam(id, row, winners).name)
    /\ writeFailures' = writeFailures + 1
    /\ UNCHANGED <<other, calls, upd, ui, exp, stats>>

\* A confirmed click on the reset button while localStorage rejects the write.
ResetButtonClickWriteFails ==
    /\ writeFailures < MaxWriteFailures
    /\ CallResetWriteFails
    /\ writeFailures' = writeFailures + 1
    /\ UNCHANGED <<other, calls, upd, ui, exp, stats>>

\* The stored item is removed (site data cleared) or damaged.
StorageLost(item) ==
    /\ storage[storageKey] # item
    /\ storage' = [storage EXCEPT ![storageKey] = item]
    /\ UNCHANGED <<winners, prev, last, writeFailures, other, calls, upd, ui, exp, stats>>

PersistNext ==
    \/ \E id \in Slots, row \in {1, 2} : TeamRowClick(id, row)
    \/ ResetButtonClick
    \/ \E id \in Slots, row \in {1, 2} : TeamRowClickWriteFails(id, row)
    \/ ResetButtonClickWriteFails
    \/ Reload
    \/ \E item \in {absentItem, corruptItem} : StorageLost(item)

\* The page with reloads, failing writes and a lost or damaged record.
PersistSpec == PersistInit /\ [][PersistNext]_vars

\* A pick in this session, counted in calls.
SessionTeamRowClick(id, row) ==
    /\ calls < MaxCalls
    /\ clickSelects(id, row, winners)
    /\ CallSetWinner(id, rowTeam(id, row, winners).name)
    /\ calls' = calls + 1
    /\ UNCHANGED <<writeFailures, other, upd, ui, exp, stats>>

\* A confirmed reset in this session, counted in calls.
SessionReset ==
    /\ calls < MaxCalls
    /\ CallReset
    /\ calls' = calls + 1
    /\ UNCHANGED <<writeFailures, other, upd, ui, exp, stats>>

\* A second session whose store is the same object as this session's.
OtherCallSetWinner_sharedStore(matchId, team) ==
    /\ other' = setWinner(other, matchId, team)
    /\ winners' = other'
    /\ storage' = [storage EXCEPT ![storageKey] = persistRecord(other')]
    /\ UNCHANGED <<prev, last>>

\* setWinner in the second session: its own store, the same localStorage key.
OtherCallSetWinner(matchId, team) ==
    /\ other' = setWinner(other, matchId, team)
    /\ storage' = [storage EXCEPT ![storageKey] = persistRecord(other')]
    /\ UNCHANGED <<winners, prev, last>>

\* reset in the second session.
OtherCallReset ==
    /\ other' = reset(other)
    /\ storage' = [storage EXCEPT ![storageKey] = persistRecord(other')]
    /\ UNCHANGED <<winners, prev, last>>

\* A pick on the second session's page.
OtherTeamRowClick(id, row) ==
    /\ calls < MaxCalls
    /\ clickSelects(id, row, other)
    /\ OtherCallSetWinner(id, rowTeam(id, row, other).name)
    /\ calls' = calls + 1
    /\ UNCHANGED <<writeFailures, upd, ui, exp, stats>>

\* A confirmed reset on the second session's page.
OtherReset ==
    /\ calls < MaxCalls
    /\ OtherCallReset
    /\ calls' = calls + 1
    /\ UNCHANGED <<writeFailures, upd, ui, exp, stats>>

\* Any step of the second session.
OtherStep ==
    \/ \E id \in Slots, row \in {1, 2} : OtherTeamRowClick(id, row)
    \/ OtherReset

TwoSessionNext ==
    \/ \E id \in Slots, row \in {1, 2} : SessionTeamRowClick(id, row)
    \/ SessionReset
    \/ Reload
    \/ \E id \in Slots, row \in {1, 2} : OtherTeamRowClick(id, row)
    \/ OtherReset

\* Two sessions of the application open in one browser.
TwoSessionSpec == Init /\ [][TwoSessionNext]_vars

\* The updater of setWinner, statement by statement.  JavaScript runs a
\* handler to completion, so a pick or a reset starts only when none is running.

\* A setWinner that publishes the target slot with a first set() of its own.
UpdBegin_setsTargetFirst(id, row) ==
    /\ upd.pc = "idle"
    /\ clickSelects(id, row, winners)
    /\ upd' = [pc |-> "l63", matchId |-> id,
               team |-> rowTeam(id, row, winners).name, state |-> winners,
               newWinners |->
                   [winners EXCEPT ![id] = rowTeam(id, row, winners).name]]
    /\ winners' = [winners EXCEPT ![id] = rowTeam(id, row, winners).name]
    /\ UNCHANGED <<prev, last, storage, writeFailures, other, calls, ui, exp, stats>>

\* A click reaches setWinner: newWinners = { ...state.winners, [matchId]: team }.
UpdBegin(id, row) ==
    /\ upd.pc = "idle"
    /\ clickSelects(id, row, winners)
    /\ upd' = [pc |-> "l63", matchId |-> id,
               team |-> rowTeam(id, row, winners).name, state |-> winners,
               newWinners |->
                   [winners EXCEPT ![id] = rowTeam(id, row, winners).name]]
    /\ UNCHANGED <<storeVars, writeFailures, other, calls, ui, exp, stats>>

\* if (matchId === 'q1' || matchId === 'q4') { newWinners.sf1 = null; ...
Upd63 ==
    /\ upd.pc = "l63"
    /\ upd' = IF upd.matchId = "q1" \/ upd.matchId = "q4"
              THEN [upd EXCEPT !.newWinners.sf1 = null, !.pc = "l63b"]
              ELSE [upd EXCEPT !.pc = "l64"]
    /\ UNCHANGED <<storeVars, writeFailures, other, calls, ui, exp, stats>>

\* ... newWinners.final = null; }
Upd63b ==
    /\ upd.pc = "l63b"
    /\ upd' = [upd EXCEPT !.newWinners.final = null, !.pc = "l64"]
    /\ UNCHANGED <<storeVars, writeFailures, other, calls, ui, exp, stats>>

\* if (matchId === 'q2' || matchId === 'q3') { newWinners.sf2 = null; ...
Upd64 ==
    /\ upd.pc = "l64"
    /\ upd' = IF upd.matchId = "q2" \/ upd.matchId = "q3"
              THEN [upd EXCEPT !.newWinners.sf2 = null, !.pc = "l64b"]
              ELSE [upd EXCEPT !.pc = "l65"]
    /\ UNCHANGED <<storeVars, writeFailures, other, calls, ui, exp, stats>>

\* ... newWinners.final = null; }
Upd64b ==
    /\ upd.pc = "l64b"
    /\ upd' = [upd EXCEPT !.newWinners.final = null, !.pc = "l65"]
    /\ UNCHANGED <<storeVars, writeFailures, other, calls, ui, exp, stats>>

\* if (matchId === 'sf1' || matchId === 'sf2') { newWinners.final = null; }
Upd65 ==
    /\ upd.pc = "l65"
    /\ upd' = IF upd.matchId = "sf1" \/ upd.matchId = "sf2"
              THEN [upd EXCEPT !.newWinners.final = null, !.pc = "l67"]
              ELSE [upd EXCEPT !.pc = "l67"]
    /\ UNCHANGED <<storeVars, writeFailures, other, calls, ui, exp, stats>>

\* return { winners: newWinners }: set() replaces the state and the persist
\* middleware writes it.
UpdCommit ==
    /\ upd.pc = "l67"
    /\ winners' = upd.newWinners
    /\ prev' = winners
    /\ last' = [op |-> "setWinner", matchId |-> upd.matchId, team |-> upd.team]
    /\ storage' = [storage EXCEPT ![storageKey] = persistRecord(winners')]
    /\ upd' = idleUpd
    /\ UNCHANGED <<writeFailures, other, calls, ui, exp, stats>>

\* A confirmed click on the reset button, between two handlers.
AtomicReset ==
    /\ upd.pc = "idle"
    /\ CallReset
    /\ UNCHANGED envVars

AtomicNext ==
    \/ \E id \in Slots, row \in {1, 2} : UpdBegin(id, row)
    \/ Upd63
    \/ Upd63b
    \/ Upd64
    \/ Upd64b
    \/ Upd65
    \/ UpdCommit
    \/ AtomicReset

\* The page with setWinner run statement by statement.
AtomicSpec == Init /\ [][AtomicNext]_vars

\* The page with every handler it registers.

\* {winners.final && (... <button onClick={handleExport} ...>)} rendered
\* whatever the mapping holds.
shareButtonShown_always(w) == TRUE

\* {winners.final && (... <button onClick={handleExport} ...>)}
shareButtonShown(w) == Truthy(w.final)

\* The Champion block of the export layout: {winners.final && (...)}.
exportChampionBlock(w) == Truthy(w.final)

\* A click on a placeholder row or on a row of a disabled card:
\* team && !disabled && onSelect(team.name) stops before onSelect.
IgnoredRowClick(id, row) ==
    /\ ~clickSelects(id, row, winners)
    /\ UNCHANGED vars

\* An export-layout card whose onSelect is the page's handleWinner.
ExportCardClick_selects(id, row) ==
    /\ Truthy(rowTeam(id, row, winners).name)
    /\ CallSetWinner(id, rowTeam(id, row, winners).name)
    /\ UNCHANGED envVars

\* A click on a row of a card of the hidden export layout: no disabled prop,
\* onSelect={() => { }}.
ExportCardClick(id, row) ==
    /\ Truthy(rowTeam(id, row, winners).name)
    /\ UNCHANGED vars

\* onScroll: if (showScrollHint !== shouldShow) setShowScrollHint(shouldShow).
Scroll(shouldShow) ==
    /\ ui' = IF ui.showScrollHint # shouldShow
             THEN [ui EXCEPT !.showScrollHint = shouldShow]
             ELSE ui
    /\ UNCHANGED <<storeVars, writeFailures, other, calls, upd, exp, stats>>

\* handleExport up to its first await.
handleExport ==
    IF ~Truthy(winners.final)
    THEN UNCHANGED ui
    ELSE ui' = [ui EXCEPT !.isExporting = TRUE, !.wrapperLeft = "0",
                          !.exportPc = "waiting"]

\* A click on Share Prediction: the button is there with a champion, and
\* disabled={isExporting}.
ShareButtonClick ==
    /\ shareButtonShown(winners)
    /\ ~ui.isExporting
    /\ handleExport
    /\ UNCHANGED <<storeVars, writeFailures, other, calls, upd, exp, stats>>

\* toJpeg resolves with the layout as rendered now; link.click() downloads it.
ExportRender ==
    /\ ui.exportPc = "waiting"
    /\ ui' = [ui EXCEPT !.exportPc = "finally",
                        !.imageChampion = IF exportChampionBlock(winners)
                                          THEN "shown" ELSE "omitted"]
    /\ UNCHANGED <<storeVars, writeFailures, other, calls, upd, exp, stats>>

\* toJpeg rejects: catch (err) { console.error(...) }.
ExportFails ==
    /\ ui.exportPc = "waiting"
    /\ ui' = [ui EXCEPT !.exportPc = "finally"]
    /\ UNCHANGED <<storeVars, writeFailures, other, calls, upd, exp, stats>>

\* finally: the wrapper goes back off screen, setIsExporting(false).
ExportFinally ==
    /\ ui.exportPc = "finally"
    /\ ui' = [ui EXCEPT !.exportPc = "idle", !.isExporting = FALSE,
                        !.wrapperLeft = "-9999px", !.imageChampion = "none"]
    /\ UNCHANGED <<storeVars, writeFailures, other, calls, upd, exp, stats>>

UINext ==
    \/ \E id \in Slots, row \in {1, 2} : TeamRowClick(id, row)
    \/ ResetButtonClick
    \/ \E id \in Slots, row \in {1, 2} : IgnoredRowClick(id, row)
    \/ \E id \in Slots, row \in {1, 2} : ExportCardClick(id, row)
    \/ \E shouldShow \in BOOLEAN : Scroll(shouldShow)
    \/ ShareButtonClick
    \/ ExportRender
    \/ ExportFails
    \/ ExportFinally

UISpec == Init /\ [][UINext]_vars

\* handleExport await by await, with the picks and resets that can run while
\* it waits.

\* How many images of the export layout can still be loading when
\* waitForImages looks at them.
MaxImages == 1

\* link.download = `afcon-2026-my-champion-${winners.final}.jpg`
fileName(final) == <<"afcon-2026-my-champion-", final, ".jpg">>

\* The champion a downloaded file's name carries.
championInName(name) == name[2]

\* handleExport up to its first await: the guard, setIsExporting(true), the
\* wrapper made visible.  winners is the closure's, read again at link.download.
ExpStart ==
    /\ shareButtonShown(winners)
    /\ ~ui.isExporting
    /\ exp.pc = "idle"
    /\ Truthy(winners.final)
    /\ ui' = [ui EXCEPT !.isExporting = TRUE, !.wrapperLeft = "0",
                        !.exportPc = "waiting"]
    /\ exp' = [exp EXCEPT !.pc = "w200", !.final = winners.final]
    /\ UNCHANGED <<storeVars, writeFailures, other, calls, upd, stats>>

\* await new Promise(resolve => setTimeout(resolve, 200)); waitForImages then
\* finds some images not complete.
ExpTimer200 ==
    /\ exp.pc = "w200"
    /\ \E n \in 0..MaxImages : exp' = [exp EXCEPT !.pc = "images", !.pending = n]
    /\ UNCHANGED <<storeVars, writeFailures, other, calls, upd, ui, stats>>

\* img.onload = () => resolve()
ImageLoads ==
    /\ exp.pc = "images"
    /\ exp.pending > 0
    /\ exp' = [exp EXCEPT !.pending = exp.pending - 1]
    /\ UNCHANGED <<storeVars, writeFailures, other, calls, upd, ui, stats>>

\* img.onerror = () => resolve()
ImageFails ==
    /\ exp.pc = "images"
    /\ exp.pending > 0
    /\ exp' = [exp EXCEPT !.pending = exp.pending - 1,
                          !.failed = exp.failed + 1]
    /\ UNCHANGED <<storeVars, writeFailures, other, calls, upd, ui, stats>>

\* await Promise.all(promises) resolves.
ExpImagesDone ==
    /\ exp.pc = "images"
    /\ exp.pending = 0
    /\ exp' = [exp EXCEPT !.pc = "w100"]
    /\ UNCHANGED <<storeVars, writeFailures, other, calls, upd, ui, stats>>

\* await new Promise(resolve => setTimeout(resolve, 100))
ExpTimer100 ==
    /\ exp.pc = "w100"
    /\ exp' = [exp EXCEPT !.pc = "toJpeg"]
    /\ UNCHANGED <<storeVars, writeFailures, other, calls, upd, ui, stats>>

\* toJpeg resolves with the layout as the store has it now; the link is
\* named from the closure's winners.final and clicked.
ExpToJpeg ==
    /\ exp.pc = "toJpeg"
    /\ exp' = [exp EXCEPT !.pc = "finally",
                          !.download = [name |-> fileName(exp.final),
                                        imageFinal |-> winners.final]]
    /\ ui' = [ui EXCEPT !.exportPc = "finally",
                        !.imageChampion = IF exportChampionBlock(winners)
                                          THEN "shown" ELSE "omitted"]
    /\ UNCHANGED <<storeVars, writeFailures, other, calls, upd, stats>>

\* A rejection that leaves handleExport without running its cleanup.
ExpToJpegThrows_skipsCleanup ==
    /\ exp.pc = "toJpeg"
    /\ exp' = idleExp
    /\ UNCHANGED <<storeVars, writeFailures, other, calls, upd, ui, stats>>

\* toJpeg rejects: catch (err) { console.error(...) }.
ExpToJpegThrows ==
    /\ exp.pc = "toJpeg"
    /\ exp' = [exp EXCEPT !.pc = "finally"]
    /\ ui' = [ui EXCEPT !.exportPc = "finally"]
    /\ UNCHANGED <<storeVars, writeFailures, other, calls, upd, stats>>

\* finally: the wrapper goes back off screen, setIsExporting(false).
ExpFinally ==
    /\ exp.pc = "finally"
    /\ exp' = idleExp
    /\ ui' = [ui EXCEPT !.exportPc = "idle", !.isExporting = FALSE,
                        !.wrapperLeft = "-9999px", !.imageChampion = "none"]
    /\ UNCHANGED <<storeVars, writeFailures, other, calls, upd, stats>>

ExportStep ==
    \/ ExpTimer200
    \/ ImageLoads
    \/ ImageFails
    \/ ExpImagesDone
    \/ ExpTimer100
    \/ ExpToJpeg
    \/ ExpToJpegThrows
    \/ ExpFinally

\* The complete brackets over one choice of Quarter-Final winners.
CompletedBrackets ==
    {w \in [Slots -> {"Mali", "Egypt", "Cameroon", "Algeria"}] :
        /\ w.q1 = "Mali" /\ w.q4 = "Egypt"
        /\ w.q2 = "Cameroon" /\ w.q3 = "Algeria"
        /\ w.sf1 \in {w.q1, w.q4}
        /\ w.sf2 \in {w.q2, w.q3}
        /\ w.final \in {w.sf1, w.sf2}}

\* The page after the seven picks of a complete bracket, the final last.
ExportInit ==
    /\ winners \in CompletedBrackets
    /\ prev = [winners EXCEPT !.final = null]
    /\ last = [op |-> "setWinner", matchId |-> "final", team |-> winners.final]
    /\ storage = [k \in {storageKey} |-> persistRecord(winners)]
    /\ writeFailures = 0
    /\ other = initialWinners
    /\ calls = 0
    /\ upd = idleUpd
    /\ ui = initialUi
    /\ exp = idleExp
    /\ stats = unmountedStats

ExportNext ==
    \/ \E id \in Slots, row \in {1, 2} : SessionTeamRowClick(id, row)
    \/ SessionReset
    \/ ExpStart
    \/ ExportStep

\* Timers fire, images settle and promises resolve or reject: a waiting
\* handleExport is resumed.
ExportSpec == ExportInit /\ [][ExportNext]_vars /\ WF_vars(ExportStep)

\* toggleSort: setSortDirections(prev => ({ ...prev, [statKey]: !prev[statKey] }))
toggleSort(statKey) ==
    /\ stats' = [stats EXCEPT !.sortDirections[statKey] = ~@]
    /\ UNCHANGED <<storeVars, writeFailures, other, calls, upd, ui, exp>>

\* StatGrid: rankings = getRankings(config.statKey, isAscending).
StatGrid(statKey) ==
    /\ stats' =
           [stats EXCEPT
               !.statKey = statKey,
               !.ascending = IF stats.sortDirections[statKey]
                             THEN "true" ELSE "false",
               !.rankings = getRankings(stats.table, statKey,
                                        stats.sortDirections[statKey]).rankings,
               !.table = getRankings(stats.table, statKey,
                                     stats.sortDirections[statKey]).table]
    /\ UNCHANGED <<storeVars, writeFailures, other, calls, upd, ui, exp>>

\* getRankings(statKey) with ascending omitted: ascending: boolean = false.
GetRankingsDefault(statKey) ==
    /\ stats' =
           [stats EXCEPT
               !.statKey = statKey,
               !.ascending = "omitted",
               !.rankings = getRankings(stats.table, statKey, FALSE).rankings,
               !.table = getRankings(stats.table, statKey, FALSE).table]
    /\ UNCHANGED <<storeVars, writeFailures, other, calls, upd, ui, exp>>

StatsNext ==
    \/ \E statKey \in StatKeys : toggleSort(statKey)
    \/ \E statKey \in StatKeys : StatGrid(statKey)
    \/ \E statKey \in StatKeys : GetRankingsDefault(statKey)

\* The rankings page opened, the bracket untouched.
StatsInit ==
    /\ winners = initialWinners
    /\ prev = initialWinners
    /\ last = [op |-> "init", matchId |-> null, team |-> null]
    /\ storage = [k \in {storageKey} |-> absentItem]
    /\ writeFailures = 0
    /\ other = initialWinners
    /\ calls = 0
    /\ upd = idleUpd
    /\ ui = initialUi
    /\ exp = idleExp
    /\ stats = initialStats

\* The rankings page.
StatsSpec == StatsInit /\ [][StatsNext]_vars

(***************************************************************************)
(* Claims                                                                  *)
(***************************************************************************)

\* C1 (as stated): after any sequence of bare store calls, every slot with a
\* winner has a winner in each of its dependency slots.
C1_StoreDependencyInvariant == DepInv(winners)

\* C1 (amended): a reset, and a setWinner made where the property holds and
\* the target's dependency slots are all decided, yield a state in which every
\* slot with a winner has a winner in each of its dependency slots.
C1_GuardedCallsKeepDependencies ==
    /\ last.op = "reset" => DepInv(winners)
    /\ (last.op = "setWinner" /\ DepInv(prev) /\ DepsDecided(last.matchId, prev))
          => DepInv(winners)

C1_Witness ==
    /\ last.op = "setWinner"
    /\ last.matchId \in QuarterFinals
    /\ DepInv(prev)
    /\ Truthy(prev.final)
    /\ prev[last.matchId] # last.team
    /\ DepInv(winners)

\* C2: in every state reached through the page's clicks and the reset button,
\* every slot with a winner has a winner in each of its dependency slots.
C2_PageDependencyInvariant ==
    \A s \in Slots : Truthy(winners[s]) => \A d \in Deps(s) : Truthy(winners[d])

C2_Witness ==
    /\ last.op = "setWinner"
    /\ last.matchId = "q1"
    /\ Truthy(prev.final)
    /\ Truthy(winners.sf2)
    /\ ~Truthy(winners.sf1)

\* C3: in every state reached through the page, the winner recorded for a
\* Quarter-Final is one of its two fixed entrants, and the winner recorded for
\* a Semi-Final or the Final is the current winner of one of its two feeders.
C3_WinnerIsCurrentContestant ==
    \A s \in Slots :
        Truthy(winners[s]) =>
            IF s \in QuarterFinals
            THEN winners[s] \in {team1(s, winners).name, team2(s, winners).name}
            ELSE winners[s] \in {winners[d] : d \in Deps(s)}

C3_Witness ==
    /\ last.op = "setWinner"
    /\ last.matchId = "q1"
    /\ Truthy(prev.q1)
    /\ prev.final = prev.q1
    /\ last.team # prev.q1
    /\ winners.q1 = last.team

\* C4: after setWinner(s, w), every slot that transitively depends on s has
\* no winner, whatever it held before.
C4_CascadeClearsDependents ==
    last.op = "setWinner" =>
        \A t \in Dependents(last.matchId) : winners[t] = null

C4_Witness ==
    /\ last.op = "setWinner"
    /\ last.matchId = "q1"
    /\ Truthy(prev.sf1)
    /\ Truthy(prev.final)
    /\ winners.sf1 = null
    /\ winners.final = null

\* C5: setWinner(s, w) leaves unchanged every slot that is neither s nor a
\* transitive dependent of s.
C5_CascadeLocality ==
    last.op = "setWinner" =>
        \A t \in Slots \ ({last.matchId} \cup Dependents(last.matchId)) :
            winners[t] = prev[t]

C5_Witness ==
    /\ last.op = "setWinner"
    /\ last.matchId = "q2"
    /\ \A t \in {"q1", "q4", "q3", "sf1"} : Truthy(prev[t]) /\ winners[t] = prev[t]

\* C6: setWinner(s, w) can be called for every slot and entrant in every
\* state, and the state after it has w recorded for s, eligible or not.
C6_SetWinnerRecords ==
    /\ last.op = "setWinner" => winners[last.matchId] = last.team
    /\ \A s \in Slots, w \in StoreEntrants : ENABLED StoreSetWinner(s, w)

C6_Witness ==
    /\ last.op = "setWinner"
    /\ last.matchId = "final"
    /\ ~Truthy(prev.sf1)
    /\ ~Truthy(prev.sf2)
    /\ last.team \notin {prev[d] : d \in Deps("final")}
    /\ winners.final = last.team

\* C7: in every state, for every slot and entrant, setWinner applied twice
\* yields the same mapping as setWinner applied once.
C7_SetWinnerIdempotent ==
    \A s \in Slots, w \in StoreEntrants :
        setWinner(setWinner(winners, s, w), s, w) = setWinner(winners, s, w)

C7_Witness ==
    /\ last.op = "setWinner"
    /\ last.matchId = "sf1"
    /\ prev.sf1 = last.team
    /\ Truthy(prev.q1)
    /\ winners = prev

\* C8: reset() from any state yields the initial state: all 7 slots without
\* winner, no champion, the Quarter-Finals selectable and sf1, sf2 and final
\* not selectable.
C8_ResetYieldsInitial ==
    last.op = "reset" =>
        /\ \A s \in Slots : winners[s] = null
        /\ winners = initialWinners
        /\ champion(winners) = null
        /\ \A s \in QuarterFinals, row \in {1, 2} : clickSelects(s, row, winners)
        /\ \A s \in Slots \ QuarterFinals, row \in {1, 2} :
               ~clickSelects(s, row, winners)

C8_Witness ==
    /\ last.op = "reset"
    /\ \A s \in Slots : Truthy(prev[s])
    /\ winners = initialWinners

\* C9: a click on a card reaches setWinner iff every dependency slot of the
\* card's slot has a winner, which is iff both its contestants are determined;
\* the Quarter-Finals accept a click in every state.
C9_SelectableIffDependenciesDecided ==
    /\ \A s \in Slots, row \in {1, 2} :
           /\ clickSelects(s, row, winners) <=> DepsDecided(s, winners)
           /\ clickSelects(s, row, winners) <=>
                  (team1(s, winners) # nullTeam /\ team2(s, winners) # nullTeam)
    /\ \A s \in QuarterFinals, row \in {1, 2} : clickSelects(s, row, winners)
    /\ last.op = "setWinner" => DepsDecided(last.matchId, prev)

C9_Witness ==
    /\ clickSelects("sf1", 1, winners)
    /\ Truthy(winners.q2)
    /\ ~Truthy(winners.q3)
    /\ ~clickSelects("sf2", 1, winners)
    /\ ~clickSelects("final", 2, winners)

\* C10: the contestants a Semi-Final or the Final shows are the recorded
\* winners of its two dependency slots, in order, or undetermined where the
\* dependency has no winner; a pick shows in the next round at once.
C10_ContestantsAreFeederWinners ==
    /\ \A s \in Slots \ QuarterFinals, i \in {1, 2} :
           LET d == dependsOn(s)[i]
               t == rowTeam(s, i, winners)
           IN  IF Truthy(winners[d])
               THEN t # nullTeam /\ t.name = winners[d]
               ELSE t = nullTeam
    /\ \A s \in Slots \ QuarterFinals, i \in {1, 2} :
           (last.op = "setWinner" /\ last.matchId = dependsOn(s)[i])
               => rowTeam(s, i, winners).name = last.team

C10_Witness ==
    /\ last = [op |-> "setWinner", matchId |-> "q4", team |-> "Egypt"]
    /\ winners.q1 = "Senegal"
    /\ team1("sf1", winners).name = "Senegal"
    /\ team2("sf1", winners).name = "Egypt"
    /\ clickSelects("sf1", 1, winners)

\* C11: the champion shown is the recorded winner of final, none when final
\* has no winner; once final is decided through the page, the champion is the
\* entrant of the setWinner('final', ...) call made last.
C11_ChampionIsFinalWinner ==
    /\ champion(winners) = IF Truthy(winners.final) THEN winners.final ELSE null
    /\ Truthy(winners.final) =>
           /\ last.op = "setWinner"
           /\ last.matchId = "final"
           /\ champion(winners) = last.team

C11_Witness ==
    /\ \A s \in Slots : Truthy(winners[s])
    /\ last.op = "setWinner"
    /\ last.matchId = "final"
    /\ last.team = winners.sf2
    /\ champion(winners) = last.team

\* C12: a reload after any sequence of page picks and resets yields a 7-slot
\* mapping identical to the one held before the reload.
C12_ReloadRoundTrip == last.op = "load" => winners = prev

C12_Witness ==
    /\ last.op = "load"
    /\ \A s \in Slots : Truthy(prev[s])
    /\ winners = prev

\* C13: a load that finds the record absent or corrupt starts the store as the
\* empty bracket, and the page then takes picks as on a first visit.
C13_AbsentOrCorruptLoadsEmpty ==
    /\ \A s \in Slots : winners[s] = null
    /\ [][(Reload /\ storage[storageKey].kind # "json") =>
            /\ \A s \in Slots : winners'[s] = null
            /\ \A s \in QuarterFinals, row \in {1, 2} :
                   clickSelects(s, row, winners')
            /\ \A s \in Slots \ QuarterFinals, row \in {1, 2} :
                   ~clickSelects(s, row, winners')]_vars

C13_Witness ==
    /\ last.op = "load"
    /\ storage[storageKey] = corruptItem
    /\ Truthy(prev.final)
    /\ \A s \in Slots : winners[s] = null

\* C14: a setWinner or reset whose write of the persisted record fails leaves
\* the in-memory mapping as a successful call does, and the store takes
\* further picks.
C14_WriteFailureKeepsMutation ==
    /\ last.op = "setWinner" => winners = setWinner(prev, last.matchId, last.team)
    /\ last.op = "reset" => winners = reset(prev)
    /\ \A s \in QuarterFinals, row \in {1, 2} :
           clickSelects(s, row, winners) /\ ENABLED TeamRowClick(s, row)

C14_Witness ==
    /\ last.op = "setWinner"
    /\ last.matchId = "sf1"
    /\ writeFailures = 1
    /\ storage[storageKey] = persistRecord(prev)
    /\ winners.sf1 = last.team
    /\ winners # prev

\* C15 (as stated): the selections a session holds are determined only by its
\* own setWinner and reset calls: no call of the other session and no reload
\* of its own changes them.
C15_SessionIsolation ==
    [][(OtherStep => winners' = winners) /\ (Reload => winners' = winners)]_vars

\* C15 (amended): no call of the other session changes the selections a
\* session holds in memory; its own reload restores the record written last
\* under the shared key, which holds its own mapping or the other session's.
C15_InMemoryIsolation ==
    /\ [][(OtherStep => winners' = winners)
            /\ (Reload => winners' \in {winners, other})]_vars
    /\ [](storage[storageKey] \in
            {absentItem, persistRecord(winners), persistRecord(other)})

C15_Witness ==
    /\ last.op = "load"
    /\ Truthy(prev.q1)
    /\ ~Truthy(prev.q2)
    /\ winners = other
    /\ Truthy(winners.q2)
    /\ ~Truthy(winners.q1)

\* A mapping that shows the new winner of slot m while a slot depending on m
\* still shows the winner it held in the mapping pre.
Torn(view, pre, m, t) ==
    /\ view # pre
    /\ view[m] = t
    /\ \E d \in Dependents(m) : Truthy(pre[d]) /\ view[d] = pre[d]

\* C16: at no instant of a setWinner does the store state or the persisted
\* record show the target slot's new winner beside the old winner of a slot
\* that depends on it: both hold the mapping of before the call until the
\* updater returns, and the complete result after.
C16_CascadeIsAtomic ==
    /\ upd.pc # "idle" =>
           /\ ~Torn(winners, upd.state, upd.matchId, upd.team)
           /\ ~Torn(hydrate(storage[storageKey], initialWinners), upd.state,
                    upd.matchId, upd.team)
           /\ winners = upd.state
           /\ hydrate(storage[storageKey], initialWinners) = upd.state
    /\ (upd.pc = "idle" /\ last.op = "setWinner") =>
           /\ ~Torn(winners, prev, last.matchId, last.team)
           /\ ~Torn(hydrate(storage[storageKey], initialWinners), prev,
                    last.matchId, last.team)
           /\ winners = setWinner(prev, last.matchId, last.team)

C16_Witness ==
    /\ upd.pc = "l63b"
    /\ upd.matchId = "q1"
    /\ Truthy(winners.final)
    /\ Torn(upd.newWinners, upd.state, upd.matchId, upd.team)
    /\ winners = upd.state

\* C17 as stated: while final has no recorded winner (and no export is
\* running) an export can be started.
C17_ExportStartsWithoutChampion ==
    (~Truthy(winners.final) /\ ~ui.isExporting) => ENABLED ShareButtonClick

\* C17: an export can be started only while final has a recorded winner: the
\* Share button is offered exactly then, and every export starts with a
\* champion.  The image leaves out the champion-highlight region exactly when
\* final holds no winner at the time it is rendered, which takes a pick or a
\* reset made while the export is running.
C17_ExportNeedsChampion ==
    /\ [](ENABLED ShareButtonClick <=>
              (Truthy(winners.final) /\ ~ui.isExporting))
    /\ []((ui.exportPc = "waiting" /\ ~Truthy(winners.final)) =>
              /\ last.op \in {"setWinner", "reset"}
              /\ last.matchId # "final")
    /\ [][/\ (ui.exportPc = "idle" /\ ui'.exportPc # "idle") =>
                 Truthy(winners.final) /\ ui'.isExporting
          /\ ExportRender =>
                 (ui'.imageChampion = "omitted" <=> ~Truthy(winners.final))]_vars

C17_Witness ==
    /\ ui.exportPc = "finally"
    /\ ui.imageChampion = "omitted"
    /\ ~Truthy(winners.final)
    /\ \A s \in QuarterFinals : Truthy(winners[s])

\* C18: the mapping changes only through setWinner and reset: starting and
\* running an export, a click on a card of the hidden export layout, a click
\* on a disabled card or on an undetermined team row, and scrolling leave
\* all 7 recorded winners, and the persisted record, unchanged.
C18_OnlySetWinnerAndResetMutate ==
    [][(winners' # winners \/ storage' # storage) =>
          /\ ~ShareButtonClick
          /\ ~ExportRender
          /\ ~ExportFails
          /\ ~ExportFinally
          /\ \A shouldShow \in BOOLEAN : ~Scroll(shouldShow)
          /\ \A id \in Slots, row \in {1, 2} :
                 ~ExportCardClick(id, row) /\ ~IgnoredRowClick(id, row)
          /\ \/ last'.op = "reset" /\ winners' = reset(winners)
             \/ /\ last'.op = "setWinner"
                /\ winners' = setWinner(winners, last'.matchId, last'.team)]_vars

C18_Witness ==
    /\ ui.exportPc = "finally"
    /\ ui.imageChampion = "shown"
    /\ ui.showScrollHint
    /\ \A s \in Slots : Truthy(winners[s])
    /\ last.op = "setWinner"
    /\ last.matchId = "final"

\* The names of the entrants the roster holds.
Entrants == {TEAMS[n].name : n \in DOMAIN TEAMS}

\* The two contestants of a slot, in order.
Contestants(id, w) == <<team1(id, w).name, team2(id, w).name>>

\* C19: the 8 entrants are pairwise distinct, each is a contestant of exactly
\* one Quarter-Final, in the fixed order q1 = (Mali, Senegal), q4 = (Egypt,
\* Ivory Coast), q2 = (Cameroon, Morocco), q3 = (Algeria, Nigeria), whatever
\* picks and resets have been made.
C19_FixedQuarterFinalContestants ==
    /\ Cardinality(Entrants) = 8
    /\ \A n, m \in DOMAIN TEAMS : TEAMS[n].name = TEAMS[m].name => n = m
    /\ Contestants("q1", winners) = <<"Mali", "Senegal">>
    /\ Contestants("q4", winners) = <<"Egypt", "Ivory Coast">>
    /\ Contestants("q2", winners) = <<"Cameroon", "Morocco">>
    /\ Contestants("q3", winners) = <<"Algeria", "Nigeria">>
    /\ \A n \in Entrants :
           Cardinality({<<q, row>> \in QuarterFinals \X {1, 2} :
                           rowTeam(q, row, winners).name = n}) = 1
    /\ \A q \in QuarterFinals, row \in {1, 2} :
           rowTeam(q, row, winners).name \in Entrants

C19_Witness ==
    /\ last.op = "setWinner"
    /\ last.matchId = "q4"
    /\ Truthy(prev.final)
    /\ winners.q4 = "Ivory Coast"
    /\ prev.q4 = "Egypt"
    /\ Contestants("q4", winners) = <<"Egypt", "Ivory Coast">>

\* The state of a slot: UNREACHABLE while a dependency is undecided, PENDING
\* with its dependencies decided and no winner, DECIDED with a winner.
SlotState(s, w) ==
    IF Truthy(w[s]) THEN "DECIDED"
    ELSE IF DepsDecided(s, w) THEN "PENDING"
    ELSE "UNREACHABLE"

\* A setWinner on slot m has just run, and slot s, fed by m directly or
\* through a Semi-Final, was DECIDED before it.
Invalidated(s) ==
    /\ last.op = "setWinner"
    /\ s \in Dependents(last.matchId)
    /\ SlotState(s, prev) = "DECIDED"

\* C20 as stated: a DECIDED slot that a setWinner on an ancestor invalidates
\* is PENDING in the resulting state.
C20_InvalidatedIsPending ==
    \A s \in Slots : Invalidated(s) => SlotState(s, winners) = "PENDING"

\* C20: a DECIDED slot that a setWinner on an ancestor invalidates has no
\* winner in the resulting state; it is PENDING when the write was to one of
\* its own dependencies (a Semi-Final after a Quarter-Final write, the final
\* after a Semi-Final write) and UNREACHABLE when the write was two rounds
\* back and cleared the dependency between them (the final after a
\* Quarter-Final write that cleared a DECIDED Semi-Final).
C20_InvalidatedLosesWinner ==
    \A s \in Slots :
        Invalidated(s) =>
            /\ winners[s] = null
            /\ last.matchId \in Deps(s) => SlotState(s, winners) = "PENDING"
            /\ last.matchId \notin Deps(s) =>
                   SlotState(s, winners) = "UNREACHABLE"

C20_Witness ==
    /\ Invalidated("final")
    /\ Invalidated("sf1")
    /\ last.matchId = "q1"
    /\ SlotState("sf1", winners) = "PENDING"
    /\ SlotState("final", winners) = "UNREACHABLE"

\* C21: the champion named in the downloaded file name is the final winner
\* shown in the captured image, also when setWinner or reset ran between the
\* start of handleExport and the capture.
C21_FileNameMatchesImage ==
    exp.download.name # <<>> =>
        championInName(exp.download.name) = exp.download.imageFinal

\* The states ExportSpec starts from are states of the page.
ExportInitReached ==
    /\ winners \in CompletedBrackets
    /\ prev = [winners EXCEPT !.final = null]
    /\ last = [op |-> "setWinner", matchId |-> "final", team |-> winners.final]
    /\ storage = [k \in {storageKey} |-> persistRecord(winners)]
    /\ winners.sf1 = "Egypt"
    /\ winners.final = "Algeria"

\* C22: every export that starts eventually finishes with isExporting false
\* and the wrapper off screen again, whether toJpeg resolves or rejects; an
\* image that fails to load is counted as loaded, so the wait for the images
\* ends whatever mix of loads and failures arrives.
C22_ExportFinishes ==
    /\ ui.isExporting ~> (~ui.isExporting /\ ui.wrapperLeft = "-9999px")
    /\ [](ui.isExporting <=> exp.pc # "idle")
    /\ [](~ui.isExporting => ui.wrapperLeft = "-9999px")
    /\ []((exp.pc = "images" /\ exp.pending = 0) => ENABLED ExpImagesDone)
    /\ [][ImageFails => exp'.pending = exp.pending - 1]_vars

C22_Witness ==
    /\ exp.pc = "finally"
    /\ exp.failed > 0
    /\ exp.download.name = <<>>
    /\ ui.isExporting
    /\ ui.wrapperLeft = "0"

\* C23: when final has a recorded winner, all 7 slots have one, and the
\* champion is the recorded winner of exactly one Quarter-Final and of
\* exactly one Semi-Final; the champion block and the Share button are shown
\* only for a complete bracket.
C23_ChampionMeansCompleteBracket ==
    /\ Truthy(winners.final) =>
           /\ \A s \in Slots : Truthy(winners[s])
           /\ Cardinality({q \in QuarterFinals :
                               winners[q] = winners.final}) = 1
           /\ Cardinality({s \in {"sf1", "sf2"} :
                               winners[s] = winners.final}) = 1
           /\ champion(winners) = winners.final
    /\ (champion(winners) # null \/ shareButtonShown(winners)) =>
           \A s \in Slots : Truthy(winners[s])

C23_Witness ==
    /\ Truthy(winners.final)
    /\ shareButtonShown(winners)
    /\ champion(winners) = "Nigeria"
    /\ winners.sf2 = "Nigeria"
    /\ winners.q3 = "Nigeria"
    /\ winners.sf1 = "Senegal"

C25_WinnerLostOnlyByAncestorWriteOrReset ==
    /\ \A s \in Slots :
           (Truthy(prev[s]) /\ ~Truthy(winners[s])) =>
               \/ last.op = "reset"
               \/ /\ last.op = "setWinner"
                  /\ last.matchId \in Deps(s) \cup UNION {Deps(d) : d \in Deps(s)}
    /\ last.op = "setWinner" =>
           /\ Truthy(winners[last.matchId])
           /\ \A q \in QuarterFinals : Truthy(prev[q]) => Truthy(winners[q])
           /\ Truthy(prev.sf1) /\ last.matchId \notin {"q1", "q4"} =>
                  Truthy(winners.sf1)
           /\ Truthy(prev.sf2) /\ last.matchId \notin {"q2", "q3"} =>
                  Truthy(winners.sf2)
           /\ Truthy(prev.final) /\ last.matchId = "final" =>
                  Truthy(winners.final)

C25_Witness ==
    /\ last.op = "setWinner"
    /\ last.matchId = "sf1"
    /\ Truthy(prev.final)
    /\ ~Truthy(winners.final)
    /\ Truthy(prev.sf2)
    /\ winners.sf2 = prev.sf2
    /\ \A q \in QuarterFinals : winners[q] = prev[q] /\ Truthy(winners[q])

\* C26: every recorded winner is the name of one of the 8 roster entrants, so
\* getTeam returns the roster record for it and the placeholder fallback (the
\* given name with an empty country code) is produced for no slot and shown
\* on no team row.
C26_WinnersAreRosterEntrants ==
    /\ \A s \in Slots :
           Truthy(winners[s]) =>
               /\ winners[s] \in Entrants
               /\ winners[s] \in DOMAIN TEAMS
               /\ getTeam(winners[s]) = TEAMS[winners[s]]
               /\ getTeam(winners[s]).iso # ""
    /\ \A id \in Slots, row \in {1, 2} :
           \/ rowTeam(id, row, winners) = nullTeam
           \/ /\ rowTeam(id, row, winners).name \in DOMAIN TEAMS
              /\ rowTeam(id, row, winners) = TEAMS[rowTeam(id, row, winners).name]

C26_Witness ==
    /\ \A s \in Slots : Truthy(winners[s])
    /\ winners.final = "Ivory Coast"
    /\ getTeam(winners.final) = [name |-> "Ivory Coast", iso |-> "ci"]
    /\ rowTeam("final", 2, winners).name = "Morocco"

\* C27: a card whose slot has a recorded winner marks exactly one of its two
\* team rows as winner and the other as lost; a card whose slot has no winner
\* marks no row as winner or lost; no card shows both teams as lost.
C27_OneWinnerRowOneLostRow ==
    \A id \in Slots :
        /\ Truthy(winners[id]) =>
               \E row \in {1, 2} :
                   /\ isWinner(id, row, winners) /\ ~isLost(id, row, winners)
                   /\ isLost(id, 3 - row, winners)
                   /\ ~isWinner(id, 3 - row, winners)
        /\ ~Truthy(winners[id]) =>
               \A row \in {1, 2} :
                   ~isWinner(id, row, winners) /\ ~isLost(id, row, winners)
        /\ ~(isLost(id, 1, winners) /\ isLost(id, 2, winners))

C27_Witness ==
    /\ last.op = "setWinner"
    /\ last.matchId = "q1"
    /\ Truthy(prev.final)
    /\ isWinner("q1", 2, winners)
    /\ isLost("q1", 1, winners)
    /\ rowTeam("sf1", 1, winners).name = "Senegal"
    /\ ~isLost("sf1", 1, winners)
    /\ ~isLost("final", 2, winners)
    /\ rowTeam("final", 1, winners) = nullTeam
    /\ isWinner("sf2", 1, winners)

\* C28: getRankings returns a permutation of the 8 TEAM_STATS records ordered
\* by the chosen statistic, lowest first when ascending is true, highest
\* first when it is false or omitted, and leaves TEAM_STATS unchanged in
\* content and order.
C28_RankingsSortedPermutation ==
    /\ stats.table = TEAM_STATS
    /\ stats.statKey # null =>
           /\ Len(stats.rankings) = Len(TEAM_STATS)
           /\ Len(stats.rankings) = 8
           /\ \A i \in 1..Len(TEAM_STATS) :
                  Cardinality({j \in 1..Len(stats.rankings) :
                                  stats.rankings[j] = TEAM_STATS[i]}) = 1
           /\ \A i, j \in 1..Len(stats.rankings) :
                  i < j =>
                      IF stats.ascending = "true"
                      THEN stats.rankings[i][stats.statKey]
                               <= stats.rankings[j][stats.statKey]
                      ELSE stats.rankings[i][stats.statKey]
                               >= stats.rankings[j][stats.statKey]

C28_Witness ==
    /\ stats.statKey = "avgGoalsConceded"
    /\ stats.ascending = "true"
    /\ stats.rankings[1].team = "Algeria"
    /\ stats.rankings[2].team = "Morocco"
    /\ stats.rankings[8].team = "Nigeria"
    /\ stats.sortDirections["avgGoals"]
    /\ stats.table = TEAM_STATS

====
